---------------------------- MODULE Spec2Model ----------------------------
(***************************************************************************)
(* A model of the DVPL container codec of dvpl_lz4 (createDVPLFooter,      *)
(* readDVPLFooter, CompressDVPL, DecompressDVPL) and of the batch walk     *)
(* that applies it to a file tree (ProcessFiles).                          *)
(*                                                                         *)
(* Byte buffers are sequences of integers 0..255; uint32 values are        *)
(* pairs of 16-bit halves.  A Go slice index i is the sequence index i+1.  *)
(***************************************************************************)
EXTENDS Integers, Sequences, FiniteSets, TLC

(***************************************************************************)
(* Bounds of the model.                                                    *)
(***************************************************************************)
\* Longest raw buffer / hand-built payload the codec specification draws.
MaxLen == 2

(***************************************************************************)
(* Constants of the program.                                               *)
(***************************************************************************)
dvplFooterSize == 20
dvplTypeNone == 0
dvplTypeLZ4 == 2
\* "DVPL" as ASCII bytes
dvplFooter == <<68, 86, 80, 76>>

(***************************************************************************)
(* uint32 values.  TLC's integers are 32-bit signed, so a uint32 v is held *)
(* as the pair <<v >> 16, v & 0xFFFF>> of its 16-bit halves.               *)
(***************************************************************************)
Half == 2 ^ 16

\* uint32(n) of a non-negative int n (n < 2^31 in this model)
uint32(n) == <<(n \div Half) % Half, n % Half>>

\* Go's byte(v) of an int: the low 8 bits
byte(v) == v % 256

\* bitwise xor of two naturals
RECURSIVE BitXor(_, _)
BitXor(a, b) ==
    IF a = 0 THEN b
    ELSE IF b = 0 THEN a
    ELSE ((a + b) % 2) + 2 * BitXor(a \div 2, b \div 2)

\* u ^ v, u >> 1, u >> 8, ^u and byte(u >> (8 * k)) of uint32 values
Xor32(u, v) == <<BitXor(u[1], v[1]), BitXor(u[2], v[2])>>
Shr1(u) == <<u[1] \div 2, u[2] \div 2 + (u[1] % 2) * 32768>>
Shr8(u) == <<u[1] \div 256, u[2] \div 256 + (u[1] % 256) * 256>>
Not32(u) == <<(Half - 1) - u[1], (Half - 1) - u[2]>>
ByteAt(u, k) ==
    IF k = 0 THEN u[2] % 256
    ELSE IF k = 1 THEN u[2] \div 256
    ELSE IF k = 2 THEN u[1] % 256
    ELSE u[1] \div 256

\* int n > int(u), for a length n and a uint32 u
Exceeds(n, u) ==
    \/ n \div Half > u[1]
    \/ n \div Half = u[1] /\ n % Half > u[2]

(***************************************************************************)
(* hash/crc32, IEEE polynomial (reflected form 0xEDB88320), as the         *)
(* byte-at-a-time table algorithm of the Go standard library.              *)
(***************************************************************************)
IEEE == <<60856, 33568>>

RECURSIVE crcShift(_, _)
crcShift(crc, k) ==
    IF k = 0 THEN crc
    ELSE crcShift(IF crc[2] % 2 = 1 THEN Xor32(Shr1(crc), IEEE) ELSE Shr1(crc),
                  k - 1)

\* simpleMakeTable: entry i is i shifted through the polynomial 8 times
ieeeTable == [i \in 0..255 |-> crcShift(<<0, i>>, 8)]

\* simpleUpdate: crc = tab[byte(crc) ^ v] ^ (crc >> 8) for each byte v of p
RECURSIVE simpleUpdate(_, _, _)
simpleUpdate(crc, p, i) ==
    IF i > Len(p) THEN crc
    ELSE simpleUpdate(Xor32(ieeeTable[BitXor(ByteAt(crc, 0), p[i])], Shr8(crc)),
                      p, i + 1)

\* ChecksumIEEE as modelled but for the first byte being left out
ChecksumIEEE_SkipFirst(p) == Not32(simpleUpdate(Not32(<<0, 0>>), p, 2))

\* crc32.ChecksumIEEE(p): ^update(^0, p)
ChecksumIEEE(p) == Not32(simpleUpdate(Not32(<<0, 0>>), p, 1))

(***************************************************************************)
(* Footer codec.                                                           *)
(***************************************************************************)
\* writeLittleEndianUint32 as written but for the bytes going out big-endian
writeLittleEndianUint32_BigEndian(b, v, offset) ==
    [i \in 1..Len(b) |->
        IF i = offset + 1 THEN ByteAt(v, 3)
        ELSE IF i = offset + 2 THEN ByteAt(v, 2)
        ELSE IF i = offset + 3 THEN ByteAt(v, 1)
        ELSE IF i = offset + 4 THEN ByteAt(v, 0)
        ELSE b[i]]

\* b with the uint32 v written little-endian at Go offset `offset`
writeLittleEndianUint32(b, v, offset) ==
    [i \in 1..Len(b) |->
        IF i = offset + 1 THEN ByteAt(v, 0)
        ELSE IF i = offset + 2 THEN ByteAt(v, 1)
        ELSE IF i = offset + 3 THEN ByteAt(v, 2)
        ELSE IF i = offset + 4 THEN ByteAt(v, 3)
        ELSE b[i]]

\* uint32(b[o]) | uint32(b[o+1])<<8 | uint32(b[o+2])<<16 | uint32(b[o+3])<<24
readLittleEndianUint32(b, offset) ==
    <<b[offset + 3] + b[offset + 4] * 256, b[offset + 1] + b[offset + 2] * 256>>

\* make([]byte, n)
Zeros(n) == [i \in 1..n |-> 0]

createDVPLFooter(inputSize, compressedSize, crc32, typeVal) ==
    LET r0 == Zeros(dvplFooterSize)
        r1 == writeLittleEndianUint32(r0, inputSize, 0)
        r2 == writeLittleEndianUint32(r1, compressedSize, 4)
        r3 == writeLittleEndianUint32(r2, crc32, 8)
        r4 == writeLittleEndianUint32(r3, typeVal, 12)
    IN  \* copy(result[16:], dvplFooter)
        [i \in 1..dvplFooterSize |-> IF i > 16 THEN dvplFooter[i - 16] ELSE r4[i]]

NoFooter ==
    [OriginalSize |-> <<0, 0>>, CompressedSize |-> <<0, 0>>, CRC32 |-> <<0, 0>>,
     Type |-> <<0, 0>>]

\* readDVPLFooter as written but for the magic being compared on its first
\* three bytes only
readDVPLFooter_ShortMagic(buffer) ==
    IF Len(buffer) < dvplFooterSize
    THEN [kind |-> "panic", err |-> "slice bounds out of range", footer |-> NoFooter]
    ELSE LET footerBuffer == SubSeq(buffer, Len(buffer) - dvplFooterSize + 1, Len(buffer))
         IN  IF SubSeq(footerBuffer, 17, 19) # SubSeq(dvplFooter, 1, 3)
             THEN [kind |-> "error", err |-> "InvalidDVPLFooter", footer |-> NoFooter]
             ELSE [kind |-> "ok", err |-> "",
                   footer |-> [OriginalSize |-> readLittleEndianUint32(footerBuffer, 0),
                               CompressedSize |-> readLittleEndianUint32(footerBuffer, 4),
                               CRC32 |-> readLittleEndianUint32(footerBuffer, 8),
                               Type |-> readLittleEndianUint32(footerBuffer, 12)]]

\* The outcome of readDVPLFooter: kind is "ok", "error" (an error value is
\* returned) or "panic" (the slice expression buffer[len(buffer)-20:] has a
\* negative bound and the Go runtime panics; nothing recovers it).
readDVPLFooter(buffer) ==
    IF Len(buffer) < dvplFooterSize
    THEN [kind |-> "panic", err |-> "slice bounds out of range", footer |-> NoFooter]
    ELSE LET footerBuffer == SubSeq(buffer, Len(buffer) - dvplFooterSize + 1, Len(buffer))
         IN  IF SubSeq(footerBuffer, 17, Len(footerBuffer)) # dvplFooter
                \/ Len(footerBuffer) # dvplFooterSize
             THEN [kind |-> "error", err |-> "InvalidDVPLFooter", footer |-> NoFooter]
             ELSE [kind |-> "ok", err |-> "",
                   footer |-> [OriginalSize |-> readLittleEndianUint32(footerBuffer, 0),
                               CompressedSize |-> readLittleEndianUint32(footerBuffer, 4),
                               CRC32 |-> readLittleEndianUint32(footerBuffer, 8),
                               Type |-> readLittleEndianUint32(footerBuffer, 12)]]

(***************************************************************************)
(* github.com/pierrec/lz4/v4, block format.  The library is a collaborator *)
(* outside the repository; it is modelled by what it computes.             *)
(***************************************************************************)
\* lz4.CompressBlockBound
CompressBlockBound(n) == n + n \div 255 + 16

\* the 255-valued length-extension bytes of a length l >= 0
RECURSIVE lenBytes(_)
lenBytes(l) == IF l >= 255 THEN <<255>> \o lenBytes(l - 255) ELSE <<l>>

\* CompressBlock as modelled but for the literal length being put in the
\* token's low nibble
CompressBlock_LowNibble(src, dstLen) ==
    LET out == <<byte(Len(src))>> \o src
    IN  IF Len(out) > dstLen
        THEN [n |-> 0, err |-> "lz4: invalid source or destination buffer too short",
              data |-> <<>>]
        ELSE [n |-> Len(out), err |-> "", data |-> out]

\* lz4.CompressBlock(src, dst, nil) with len(dst) = dstLen.  A source no
\* longer than mfLimit (12 bytes) holds no match the format allows, the
\* match loop is not entered and the block is the "last literals" sequence:
\* a token with the literal length in its high nibble, the length's
\* extension bytes from 15 on, then the literals.  The buffers of this
\* model stay within that length.
CompressBlock(src, dstLen) ==
    LET lLen == Len(src)
        head == IF lLen < 15 THEN <<byte(lLen * 16)>>
                ELSE <<240>> \o lenBytes(lLen - 15)
        out == head \o src
    IN  IF Len(out) > dstLen
        THEN [n |-> 0, err |-> "lz4: invalid source or destination buffer too short",
              data |-> <<>>]
        ELSE [n |-> Len(out), err |-> "", data |-> out]

\* the length-extension loop of the decoder: add bytes until one is not 255
RECURSIVE readLen(_, _, _)
readLen(src, si, acc) ==
    IF si > Len(src) THEN [ok |-> FALSE, len |-> 0, si |-> si]
    ELSE IF src[si] = 255 THEN readLen(src, si + 1, acc + 255)
    ELSE [ok |-> TRUE, len |-> acc + src[si], si |-> si + 1]

\* copy of a match of mLen bytes at distance offset, byte by byte so that an
\* overlapping match repeats its own output
RECURSIVE copyMatch(_, _, _)
copyMatch(out, offset, mLen) ==
    IF mLen = 0 THEN out
    ELSE copyMatch(Append(out, out[Len(out) - offset + 1]), offset, mLen - 1)

\* decodeBlock(dst, src, nil): the sequences of src from index si on are
\* appended to out; any read past src, write past dst (dstLen bytes), zero
\* offset or offset beyond the output is the decoder's error.
RECURSIVE decodeBlock(_, _, _, _)
decodeBlock(src, dstLen, si, out) ==
    IF si > Len(src) THEN [ok |-> TRUE, out |-> out]
    ELSE
    LET b == src[si]
        mLen0 == b % 16
        lit == IF b \div 16 = 15 THEN readLen(src, si + 1, 15)
               ELSE [ok |-> TRUE, len |-> b \div 16, si |-> si + 1]
        bad == [ok |-> FALSE, out |-> <<>>]
    IN  IF ~lit.ok THEN bad
        ELSE IF lit.si + lit.len - 1 > Len(src) \/ Exceeds(Len(out) + lit.len, dstLen) THEN bad
        ELSE
        LET out1 == out \o SubSeq(src, lit.si, lit.si + lit.len - 1)
            si1 == lit.si + lit.len
        IN  IF si1 = Len(src) + 1 /\ mLen0 = 0 THEN [ok |-> TRUE, out |-> out1]
            ELSE IF si1 + 1 > Len(src) THEN bad
            ELSE
            LET offset == src[si1] + 256 * src[si1 + 1]
                mat == IF mLen0 = 15 THEN readLen(src, si1 + 2, 19)
                       ELSE [ok |-> TRUE, len |-> mLen0 + 4, si |-> si1 + 2]
            IN  IF offset = 0 \/ ~mat.ok THEN bad
                ELSE IF offset > Len(out1) \/ Exceeds(Len(out1) + mat.len, dstLen) THEN bad
                ELSE decodeBlock(src, dstLen, mat.si, copyMatch(out1, offset, mat.len))

\* lz4.UncompressBlock(src, dst) with dst = make([]byte, dstLen): n bytes were
\* written to the front of dst and data holds them (dst[:n]); the rest of
\* dst stays zero, and dst is all of data exactly when n = dstLen.
UncompressBlock(src, dstLen) ==
    IF Len(src) = 0 THEN [n |-> 0, err |-> "", data |-> <<>>]
    ELSE LET r == decodeBlock(src, dstLen, 1, <<>>)
         IN  IF r.ok
             THEN [n |-> Len(r.out), err |-> "", data |-> r.out]
             ELSE [n |-> 0, err |-> "lz4: invalid source or destination buffer too short",
                   data |-> <<>>]

(***************************************************************************)
(* Container codec.  An outcome is [kind, err, data, steps]: kind "ok"     *)
(* (data returned, err nil), "error" (nil data, err returned) or "panic";  *)
(* steps lists, in order, the checks and calls the call went through.      *)
(***************************************************************************)
Outcome(kind, err, data, steps) ==
    [kind |-> kind, err |-> err, data |-> data, steps |-> steps]

\* CompressDVPL as written but for the checksum being taken over the input
\* instead of the compressed block
CompressDVPL_CrcOfInput(buffer) ==
    LET compressedBlockSize == CompressBlockBound(Len(buffer))
        c == CompressBlock(buffer, compressedBlockSize)
    IN  IF c.err # "" THEN Outcome("error", c.err, <<>>, <<"lz4">>)
        ELSE LET compressedBlock == SubSeq(c.data, 1, c.n)
                 footerBuffer == createDVPLFooter(uint32(Len(buffer)), uint32(c.n),
                                                  ChecksumIEEE(buffer),
                                                  uint32(dvplTypeLZ4))
             IN  Outcome("ok", "", compressedBlock \o footerBuffer, <<"lz4">>)

CompressDVPL(buffer) ==
    LET compressedBlockSize == CompressBlockBound(Len(buffer))
        c == CompressBlock(buffer, compressedBlockSize)
    IN  IF c.err # "" THEN Outcome("error", c.err, <<>>, <<"lz4">>)
        ELSE LET compressedBlock == SubSeq(c.data, 1, c.n)
                 footerBuffer == createDVPLFooter(uint32(Len(buffer)), uint32(c.n),
                                                  ChecksumIEEE(compressedBlock),
                                                  uint32(dvplTypeLZ4))
             IN  Outcome("ok", "", compressedBlock \o footerBuffer, <<"lz4">>)

\* the LZ4 branch as written but for the number of bytes produced not being
\* compared with the original size
decompressLZ4_NoCountCheck(footerData, targetBlock) ==
    LET u == UncompressBlock(targetBlock, footerData.OriginalSize)
    IN  IF u.err # ""
        THEN Outcome("error", u.err, <<>>, <<"footer", "size", "crc", "type", "lz4">>)
        ELSE Outcome("ok", "", u.data, <<"footer", "size", "crc", "type", "lz4">>)

\* the LZ4 branch of DecompressDVPL
decompressLZ4(footerData, targetBlock) ==
    LET u == UncompressBlock(targetBlock, footerData.OriginalSize)
    IN  IF u.err # ""
        THEN Outcome("error", u.err, <<>>, <<"footer", "size", "crc", "type", "lz4">>)
        ELSE IF uint32(u.n) # footerData.OriginalSize
        THEN Outcome("error", "DVPLDecodeSizeMismatch", <<>>,
                     <<"footer", "size", "crc", "type", "lz4">>)
        ELSE Outcome("ok", "", u.data, <<"footer", "size", "crc", "type", "lz4">>)

\* the type dispatch as written but for the stored branch returning the
\* payload without comparing the sizes
decompressByType_NoSizeCheck(footerData, targetBlock) ==
    IF footerData.Type = uint32(dvplTypeNone)
    THEN Outcome("ok", "", targetBlock, <<"footer", "size", "crc", "type">>)
    ELSE IF footerData.Type = uint32(dvplTypeLZ4)
    THEN decompressLZ4(footerData, targetBlock)
    ELSE Outcome("error", "UNKNOWN DVPL FORMAT", <<>>,
                 <<"footer", "size", "crc", "type">>)

\* the type dispatch as written but for every type other than 0 being taken
\* for LZ4
decompressByType_ElseLZ4(footerData, targetBlock) ==
    IF footerData.Type = uint32(dvplTypeNone)
    THEN IF footerData.OriginalSize # footerData.CompressedSize
            \/ footerData.Type # uint32(dvplTypeNone)
         THEN Outcome("error", "DVPLTypeSizeMismatch", <<>>,
                      <<"footer", "size", "crc", "type">>)
         ELSE Outcome("ok", "", targetBlock, <<"footer", "size", "crc", "type">>)
    ELSE decompressLZ4(footerData, targetBlock)

\* DecompressDVPL after its size and checksum checks: the dispatch on
\* footerData.Type
decompressByType(footerData, targetBlock) ==
    IF footerData.Type = uint32(dvplTypeNone)
    THEN IF footerData.OriginalSize # footerData.CompressedSize
            \/ footerData.Type # uint32(dvplTypeNone)
         THEN Outcome("error", "DVPLTypeSizeMismatch", <<>>,
                      <<"footer", "size", "crc", "type">>)
         ELSE Outcome("ok", "", targetBlock, <<"footer", "size", "crc", "type">>)
    ELSE IF footerData.Type = uint32(dvplTypeLZ4)
    THEN decompressLZ4(footerData, targetBlock)
    ELSE Outcome("error", "UNKNOWN DVPL FORMAT", <<>>,
                 <<"footer", "size", "crc", "type">>)

\* DecompressDVPL as written but for the checksum being compared before the
\* payload length
DecompressDVPL_CrcFirst(buffer) ==
    LET f == readDVPLFooter(buffer)
        footerData == f.footer
        targetBlock == SubSeq(buffer, 1, Len(buffer) - dvplFooterSize)
    IN  IF f.kind # "ok" THEN Outcome(f.kind, f.err, <<>>, <<"footer">>)
        ELSE IF ChecksumIEEE(targetBlock) # footerData.CRC32
        THEN Outcome("error", "DVPLCRC32Mismatch", <<>>, <<"footer", "crc">>)
        ELSE IF uint32(Len(targetBlock)) # footerData.CompressedSize
        THEN Outcome("error", "DVPLSizeMismatch", <<>>, <<"footer", "crc", "size">>)
        ELSE decompressByType(footerData, targetBlock)

DecompressDVPL(buffer) ==
    LET f == readDVPLFooter(buffer)
        footerData == f.footer
        targetBlock == SubSeq(buffer, 1, Len(buffer) - dvplFooterSize)
    IN  IF f.kind # "ok" THEN Outcome(f.kind, f.err, <<>>, <<"footer">>)
        ELSE IF uint32(Len(targetBlock)) # footerData.CompressedSize
        THEN Outcome("error", "DVPLSizeMismatch", <<>>, <<"footer", "size">>)
        ELSE IF ChecksumIEEE(targetBlock) # footerData.CRC32
        THEN Outcome("error", "DVPLCRC32Mismatch", <<>>, <<"footer", "size", "crc">>)
        ELSE decompressByType(footerData, targetBlock)

(***************************************************************************)
(* The codec's memory.  The byte arrays a call can reach are named: the    *)
(* argument's array is "buffer", and each make or reallocation of the call *)
(* adds an array of its own.  A slice is an array's name and a length from *)
(* the array's start.  The lz4 calls write into their dst argument only.   *)
(***************************************************************************)
NoSlice == [array |-> "", len |-> 0]
Memory(arrays, ret) == [arrays |-> arrays, ret |-> ret]
NoMemory == Memory([a \in {} |-> <<>>], NoSlice)

\* an append that writes the elements into the argument's array
append_IntoBuffer(arrays, name, n, capacity, elems) ==
    Memory([arrays EXCEPT !["buffer"] = elems], [array |-> "buffer", len |-> Len(elems)])

\* append(s, elems...) for the slice s of the first n bytes of the array name,
\* of the given capacity: in place when the capacity allows, into a new array
\* otherwise
append(arrays, name, n, capacity, elems) ==
    IF n + Len(elems) <= capacity
    THEN Memory([arrays EXCEPT ![name] =
                    SubSeq(@, 1, n) \o elems \o SubSeq(@, n + Len(elems) + 1, Len(@))],
                [array |-> name, len |-> n + Len(elems)])
    ELSE Memory(("appended" :> (SubSeq(arrays[name], 1, n) \o elems)) @@ arrays,
                [array |-> "appended", len |-> n + Len(elems)])

\* the arrays after CompressDVPL(buffer) and the slice it returns
CompressDVPLMemory(buffer) ==
    LET compressedBlockSize == CompressBlockBound(Len(buffer))
        c == CompressBlock(buffer, compressedBlockSize)
        made == ("compressedBlock" :> (c.data \o Zeros(compressedBlockSize - Len(c.data))))
                @@ ("buffer" :> buffer)
    IN  IF c.err # "" THEN Memory(made, NoSlice)
        ELSE append(("result" :> createDVPLFooter(uint32(Len(buffer)), uint32(c.n),
                                                  ChecksumIEEE(SubSeq(c.data, 1, c.n)),
                                                  uint32(dvplTypeLZ4))) @@ made,
                    "compressedBlock", c.n, compressedBlockSize,
                    createDVPLFooter(uint32(Len(buffer)), uint32(c.n),
                                     ChecksumIEEE(SubSeq(c.data, 1, c.n)),
                                     uint32(dvplTypeLZ4)))

\* the arrays after DecompressDVPL(buffer), whose outcome is given, and the
\* slice it returns: targetBlock, a slice of the argument's array, for a
\* stored payload, and deDVPLBlock for an LZ4 one.  Of deDVPLBlock only the
\* bytes the decoder produced are kept.
DecompressDVPLMemory(buffer, outcome) ==
    IF "lz4" \in {outcome.steps[i] : i \in 1..Len(outcome.steps)}
    THEN Memory(("deDVPLBlock" :>
                    UncompressBlock(SubSeq(buffer, 1, Len(buffer) - dvplFooterSize),
                                    readLittleEndianUint32(buffer,
                                        Len(buffer) - dvplFooterSize)).data)
                @@ ("buffer" :> buffer),
                IF outcome.kind = "ok"
                THEN [array |-> "deDVPLBlock", len |-> Len(outcome.data)]
                ELSE NoSlice)
    ELSE Memory(("buffer" :> buffer),
                IF outcome.kind = "ok"
                THEN [array |-> "buffer", len |-> Len(buffer) - dvplFooterSize]
                ELSE NoSlice)

(***************************************************************************)
(* Paths and the file system.  A path or a file name is the sequence of    *)
(* its characters' codes ("a.dvpl" is <<97, 46, 100, 118, 112, 108>>); a   *)
(* file system is a function from the paths of its regular files to their  *)
(* bytes, beside the set of the paths of its directories.                  *)
(***************************************************************************)
\* ".dvpl"
dvplExtension == <<46, 100, 118, 112, 108>>

\* the characters '.', '/' and ','
Dot == <<46>>
Slash == <<47>>
Comma == <<44>>

\* strings.HasSuffix, strings.TrimSuffix
HasSuffix(str, suffix) ==
    /\ Len(str) >= Len(suffix)
    /\ SubSeq(str, Len(str) - Len(suffix) + 1, Len(str)) = suffix

\* a TrimSuffix that leaves the suffix's first character in place
TrimSuffix_KeepDot(str, suffix) ==
    IF Len(suffix) <= Len(str)
       /\ SubSeq(str, Len(str) - Len(suffix) + 1, Len(str)) = suffix
    THEN SubSeq(str, 1, Len(str) - Len(suffix) + 1)
    ELSE str

\* a TrimSuffix that removes every trailing copy of the suffix
RECURSIVE TrimSuffix_Every(_, _)
TrimSuffix_Every(str, suffix) ==
    IF suffix # <<>> /\ HasSuffix(str, suffix)
    THEN TrimSuffix_Every(SubSeq(str, 1, Len(str) - Len(suffix)), suffix)
    ELSE str

TrimSuffix(str, suffix) ==
    IF HasSuffix(str, suffix) THEN SubSeq(str, 1, Len(str) - Len(suffix)) ELSE str

\* filepath.Ext: the suffix from the last dot of the last path element on,
\* empty when that element has no dot
RECURSIVE extFrom(_, _)
extFrom(path, i) ==
    IF i < 1 \/ <<path[i]>> = Slash THEN <<>>
    ELSE IF <<path[i]>> = Dot THEN SubSeq(path, i, Len(path))
    ELSE extFrom(path, i - 1)

\* an Ext that leaves the dot out
Ext_NoDot(path) ==
    IF extFrom(path, Len(path)) = <<>> THEN <<>> ELSE Tail(extFrom(path, Len(path)))

Ext(path) == extFrom(path, Len(path))

\* a Split that does not split
Split_Whole(str, piece) == {piece \o str}

\* strings.Split(str, ","), as the set of its pieces
RECURSIVE Split(_, _)
Split(str, piece) ==
    IF str = <<>> THEN {piece}
    ELSE IF <<Head(str)>> = Comma THEN {piece} \cup Split(Tail(str), <<>>)
    ELSE Split(Tail(str), Append(piece, Head(str)))

\* filepath.Join(dir, name)
Join(dir, name) == dir \o Slash \o name

\* byte-wise order of strings, the order os.ReadDir lists entries in
RECURSIVE LexLess(_, _)
LexLess(a, b) ==
    IF b = <<>> THEN FALSE
    ELSE IF a = <<>> THEN TRUE
    ELSE IF a[1] # b[1] THEN a[1] < b[1]
    ELSE LexLess(Tail(a), Tail(b))

RECURSIVE Sorted(_)
Sorted(S) ==
    IF S = {} THEN <<>>
    ELSE LET least == CHOOSE x \in S : \A y \in S \ {x} : LexLess(x, y)
         IN  <<least>> \o Sorted(S \ {least})

\* the paths directly under dir
Children(files, directories, dir) ==
    {q \in (DOMAIN files) \cup directories :
        /\ Len(q) > Len(dir) + 1
        /\ SubSeq(q, 1, Len(dir) + 1) = dir \o Slash
        /\ \A i \in (Len(dir) + 2)..Len(q) : <<q[i]>> # Slash}

\* a listing that holds every entry twice
ReadDir_Twice(files, directories, dir) ==
    Sorted(Children(files, directories, dir)) \o Sorted(Children(files, directories, dir))

\* os.ReadDir(dir) followed by filepath.Join(dir, dirItem.Name()) for each
\* entry: the children's paths, sorted by file name
ReadDir(files, directories, dir) == Sorted(Children(files, directories, dir))

\* os.WriteFile(name, data, 0644): the file is created or replaced; the call
\* fails for a name that is a directory or ends in a separator
CanWrite(directories, name) ==
    /\ name # <<>>
    /\ name \notin directories
    /\ <<name[Len(name)]>> # Slash

WriteFile(files, name, data) == (name :> data) @@ files

\* an os.Remove that leaves the file in place and reports no error
Remove_Nothing(files, name) == files

\* os.Remove(name) of a regular file
Remove(files, name) == [q \in (DOMAIN files) \ {name} |-> files[q]]

(***************************************************************************)
(* ProcessFiles.  What one call on a regular file does, as the record of   *)
(* its effects: the files afterwards, the three counts and the error it    *)
(* returns, the file operations it made in order, and whether the process  *)
(* died in a panic.  fault names the file operation of this call that the  *)
(* operating system fails ("read", "write", "remove"), if any.             *)
(***************************************************************************)
Returned(files, succ, fail, ign, err, done) ==
    [files |-> files, succ |-> succ, fail |-> fail, ign |-> ign, err |-> err,
     ops |-> done, panic |-> FALSE]

\* a storeProcessed that removes the input before it writes the output
storeProcessed_RemoveFirst(files, directories, filePath, newName, processed, config, fault) ==
    IF processed.kind = "panic"
    THEN [files |-> files, succ |-> 0, fail |-> 0, ign |-> 0, err |-> processed.err,
          ops |-> <<<<"read", filePath>>>>, panic |-> TRUE]
    ELSE IF processed.kind # "ok"
    THEN Returned(files, 0, 1, 0, "", <<<<"read", filePath>>>>)
    ELSE IF config.KeepOriginals \/ fault = "remove"
    THEN IF fault = "write" \/ ~CanWrite(directories, newName)
         THEN Returned(files, 0, 0, 0, "write", <<<<"read", filePath>>>>)
         ELSE Returned(WriteFile(files, newName, processed.data), 1, 0, 0, "",
                       <<<<"read", filePath>>, <<"write", newName>>>>)
    ELSE IF fault = "write" \/ ~CanWrite(directories, newName)
    THEN Returned(Remove(files, filePath), 0, 0, 0, "write",
                  <<<<"read", filePath>>, <<"remove", filePath>>>>)
    ELSE Returned(WriteFile(Remove(files, filePath), newName, processed.data),
                  1, 0, 0, "",
                  <<<<"read", filePath>>, <<"remove", filePath>>, <<"write", newName>>>>)

\* a storeProcessed that returns the error of a failed removal
storeProcessed_RemoveFatal(files, directories, filePath, newName, processed, config, fault) ==
    IF processed.kind = "panic"
    THEN [files |-> files, succ |-> 0, fail |-> 0, ign |-> 0, err |-> processed.err,
          ops |-> <<<<"read", filePath>>>>, panic |-> TRUE]
    ELSE IF processed.kind # "ok"
    THEN Returned(files, 0, 1, 0, "", <<<<"read", filePath>>>>)
    ELSE IF fault = "write" \/ ~CanWrite(directories, newName)
    THEN Returned(files, 0, 0, 0, "write", <<<<"read", filePath>>>>)
    ELSE IF config.KeepOriginals
    THEN Returned(WriteFile(files, newName, processed.data), 1, 0, 0, "",
                  <<<<"read", filePath>>, <<"write", newName>>>>)
    ELSE IF fault = "remove"
    THEN Returned(WriteFile(files, newName, processed.data), 0, 0, 0, "remove",
                  <<<<"read", filePath>>, <<"write", newName>>,
                    <<"remove failed", filePath>>>>)
    ELSE Returned(Remove(WriteFile(files, newName, processed.data), filePath),
                  1, 0, 0, "",
                  <<<<"read", filePath>>, <<"write", newName>>, <<"remove", filePath>>>>)

\* ProcessFiles from the codec's return on: the error check, the write of the
\* output, the removal of the input, the count
storeProcessed(files, directories, filePath, newName, processed, config, fault) ==
    IF processed.kind = "panic"
    THEN [files |-> files, succ |-> 0, fail |-> 0, ign |-> 0, err |-> processed.err,
          ops |-> <<<<"read", filePath>>>>, panic |-> TRUE]
    ELSE IF processed.kind # "ok"
    THEN Returned(files, 0, 1, 0, "", <<<<"read", filePath>>>>)
    ELSE IF fault = "write" \/ ~CanWrite(directories, newName)
    THEN Returned(files, 0, 0, 0, "write", <<<<"read", filePath>>>>)
    ELSE IF config.KeepOriginals
    THEN Returned(WriteFile(files, newName, processed.data), 1, 0, 0, "",
                  <<<<"read", filePath>>, <<"write", newName>>>>)
    ELSE IF fault = "remove"
    THEN Returned(WriteFile(files, newName, processed.data), 1, 0, 0, "",
                  <<<<"read", filePath>>, <<"write", newName>>,
                    <<"remove failed", filePath>>>>)
    ELSE Returned(Remove(WriteFile(files, newName, processed.data), filePath),
                  1, 0, 0, "",
                  <<<<"read", filePath>>, <<"write", newName>>, <<"remove", filePath>>>>)

\* a file branch that never looks at the ignore list
processFile_NoIgnore(files, directories, directoryOrFile, config, fault) ==
    LET isDecompression == /\ config.Mode = "decompress"
                           /\ HasSuffix(directoryOrFile, dvplExtension)
        isCompression == /\ config.Mode = "compress"
                         /\ ~HasSuffix(directoryOrFile, dvplExtension)
    IN  IF isDecompression \/ isCompression
        THEN IF fault = "read"
             THEN Returned(files, 0, 0, 0, "read", <<>>)
             ELSE IF isCompression
             THEN storeProcessed(files, directories, directoryOrFile,
                                 directoryOrFile \o dvplExtension,
                                 CompressDVPL(files[directoryOrFile]), config, fault)
             ELSE storeProcessed(files, directories, directoryOrFile,
                                 TrimSuffix(directoryOrFile, dvplExtension),
                                 DecompressDVPL(files[directoryOrFile]), config, fault)
        ELSE Returned(files, 0, 0, 1, "", <<>>)

\* the file branch of ProcessFiles
processFile(files, directories, directoryOrFile, config, fault) ==
    LET isDecompression == /\ config.Mode = "decompress"
                           /\ HasSuffix(directoryOrFile, dvplExtension)
        isCompression == /\ config.Mode = "compress"
                         /\ ~HasSuffix(directoryOrFile, dvplExtension)
        ignoreExtensions == IF config.Ignore # <<>> THEN Split(config.Ignore, <<>>)
                            ELSE {}
        shouldIgnore == Ext(directoryOrFile) \in ignoreExtensions
    IN  IF ~shouldIgnore /\ (isDecompression \/ isCompression)
        THEN IF fault = "read"
             THEN Returned(files, 0, 0, 0, "read", <<>>)
             ELSE IF isCompression
             THEN storeProcessed(files, directories, directoryOrFile,
                                 directoryOrFile \o dvplExtension,
                                 CompressDVPL(files[directoryOrFile]), config, fault)
             ELSE storeProcessed(files, directories, directoryOrFile,
                                 TrimSuffix(directoryOrFile, dvplExtension),
                                 DecompressDVPL(files[directoryOrFile]), config, fault)
        ELSE Returned(files, 0, 0, 1, "", <<>>)

\* a check that stores what it decoded
checkProcessed_Stores(files, filePath, processed) ==
    IF processed.kind = "panic"
    THEN [files |-> files, succ |-> 0, fail |-> 0, ign |-> 0, err |-> processed.err,
          ops |-> <<<<"read", filePath>>>>, panic |-> TRUE]
    ELSE IF processed.kind # "ok"
    THEN Returned(files, 0, 1, 0, "", <<<<"read", filePath>>>>)
    ELSE Returned(WriteFile(files, TrimSuffix(filePath, dvplExtension), processed.data),
                  1, 0, 0, "",
                  <<<<"read", filePath>>,
                    <<"write", TrimSuffix(filePath, dvplExtension)>>>>)

\* VerifyDVPLFiles from the codec's return on
checkProcessed(files, filePath, processed) ==
    IF processed.kind = "panic"
    THEN [files |-> files, succ |-> 0, fail |-> 0, ign |-> 0, err |-> processed.err,
          ops |-> <<<<"read", filePath>>>>, panic |-> TRUE]
    ELSE IF processed.kind # "ok"
    THEN Returned(files, 0, 1, 0, "", <<<<"read", filePath>>>>)
    ELSE Returned(files, 1, 0, 0, "", <<<<"read", filePath>>>>)

\* the file branch of VerifyDVPLFiles
verifyFile(files, directoryOrFile, fault) ==
    IF ~HasSuffix(directoryOrFile, dvplExtension)
    THEN Returned(files, 0, 0, 1, "", <<>>)
    ELSE IF fault = "read"
    THEN Returned(files, 0, 0, 0, "read", <<>>)
    ELSE checkProcessed(files, directoryOrFile, DecompressDVPL(files[directoryOrFile]))

(***************************************************************************)
(* State.  The codec is a pure function of its argument; the specification *)
(* holds one buffer, applies the codec's operations to it and keeps what   *)
(* went in and what came out.                                              *)
(***************************************************************************)
None == Outcome("none", "", <<>>, <<>>)
NoParse == [kind |-> "none", err |-> "", footer |-> NoFooter]
NoFields == [o |-> <<0, 0>>, c |-> <<0, 0>>, k |-> <<0, 0>>, t |-> <<0, 0>>,
             m |-> <<>>]

VARIABLES
    pc,       \* "input", "compressed", "built", "tampered", "truncated", "decoded"
    raw,      \* the bytes drawn at the start
    buffer,   \* the buffer the next call is given
    fields,   \* the footer fields and magic a hand-built container was given
    comp,     \* the outcome of CompressDVPL(raw), once called
    result,   \* the outcome of DecompressDVPL(buffer), once called
    origin,   \* the value of pc when DecompressDVPL was called
    prior,    \* the container before a bit of it was flipped
    parsed,   \* the outcome of readDVPLFooter, once called
    heap      \* the byte arrays after the last CompressDVPL or DecompressDVPL
              \* call, and the slice it returned

codecVars == <<pc, raw, buffer, fields, comp, result, origin, prior, parsed, heap>>

\* The state of a walk: the file system and the activation records of the
\* recursive ProcessFiles calls in progress.
VARIABLES
    fs,       \* the regular files: path -> bytes
    dirs,     \* the directories' paths
    cfg,      \* the Config of the walk in progress or last made
    stack,    \* the directory loops in progress, innermost last: the paths
              \* still to visit and the counts summed so far
    ret,      \* what the top-level call returned
    wpc,      \* "off", "idle", "walking", "returned" or "crashed"
    ops,      \* the file operations of the current walk, in order
    budget,   \* how many more operating-system failures may be injected
    fs0,      \* the regular files before the first walk
    walks,    \* the walks made so far: their Config and what they returned
    calls     \* the calls of the current walk that returned, in the order
              \* they returned: the path and the four values returned

walkVars == <<fs, dirs, cfg, stack, ret, wpc, ops, budget, fs0, walks, calls>>

vars == <<codecVars, walkVars>>

NoFiles == [q \in {} |-> <<>>]
NoConfig == [Mode |-> "", KeepOriginals |-> FALSE, Path |-> <<>>, Ignore |-> <<>>]
NoRet == [succ |-> 0, fail |-> 0, ign |-> 0, err |-> "", panic |-> FALSE]

\* no walk is modelled
WalkOff ==
    /\ fs = NoFiles /\ dirs = {} /\ cfg = NoConfig /\ stack = <<>> /\ ret = NoRet
    /\ wpc = "off" /\ ops = <<>> /\ budget = 0 /\ fs0 = NoFiles /\ walks = <<>>
    /\ calls = <<>>

\* no codec call is modelled
CodecOff ==
    /\ pc = "off" /\ raw = <<>> /\ buffer = <<>> /\ fields = NoFields
    /\ comp = None /\ result = None /\ origin = "" /\ prior = <<>>
    /\ parsed = NoParse /\ heap = NoMemory


\* the byte values buffers are drawn from: a zero, an LZ4 one-literal token,
\* and all ones
Alphabet == {0, 16, 255}

RECURSIVE SeqsUpTo(_, _)
SeqsUpTo(S, n) ==
    IF n = 0 THEN {<<>>}
    ELSE LET shorter == SeqsUpTo(S, n - 1)
         IN  shorter \cup {Append(q, x) : q \in {r \in shorter : Len(r) = n - 1}, x \in S}

Buffers == SeqsUpTo(Alphabet, MaxLen)

\* footer field values a hand-built container of payload p is given: the
\* right one, near misses, and values that differ only in the high half
SizeSamples(p) == {uint32(Len(p)), uint32(Len(p) + 1), <<1, Len(p)>>}
\* for the original size also one less than the payload's length, the size
\* of what a one-token LZ4 block of that length decodes to
OriginalSamples(p) ==
    SizeSamples(p) \cup (IF Len(p) > 0 THEN {uint32(Len(p) - 1)} ELSE {})
CrcSamples(p) == {ChecksumIEEE(p), Xor32(ChecksumIEEE(p), <<32768, 1>>)}
TypeSamples == {uint32(0), uint32(1), uint32(2), uint32(3), <<0, 258>>, <<1, 2>>,
                <<65535, 65535>>}
MagicSamples == {dvplFooter, <<68, 86, 80, 77>>, <<69, 86, 80, 76>>,
                 <<100, 118, 112, 108>>}

\* b with bit k flipped
FlipBit(b, k) == BitXor(b, 2 ^ k)

Init ==
    /\ pc = "input"
    /\ raw \in Buffers
    /\ buffer = raw
    /\ fields = NoFields
    /\ comp = None
    /\ result = None
    /\ origin = ""
    /\ prior = <<>>
    /\ parsed = NoParse
    /\ heap = NoMemory
    /\ WalkOff

\* CompressDVPL(raw)
Compress ==
    /\ pc = "input"
    /\ comp' = CompressDVPL(buffer)
    /\ heap' = CompressDVPLMemory(buffer)
    /\ buffer' = comp'.data
    /\ pc' = "compressed"
    /\ UNCHANGED <<raw, fields, result, origin, prior, parsed, walkVars>>

\* a container assembled by hand: raw as the payload, then a footer of the
\* given fields whose last four bytes are m
Build(o, c, k, t, m) ==
    /\ pc = "input"
    /\ buffer' = raw \o SubSeq(createDVPLFooter(o, c, k, t), 1, 16) \o m
    /\ fields' = [o |-> o, c |-> c, k |-> k, t |-> t, m |-> m]
    /\ pc' = "built"
    /\ UNCHANGED <<raw, comp, result, origin, prior, parsed, heap, walkVars>>

\* one bit of the stored payload of a valid container is flipped
Tamper(i, k) ==
    /\ pc \in {"compressed", "built"}
    /\ DecompressDVPL(buffer).kind = "ok"
    /\ i \in 1..(Len(buffer) - dvplFooterSize)
    /\ prior' = buffer
    /\ buffer' = [buffer EXCEPT ![i] = FlipBit(buffer[i], k)]
    /\ pc' = "tampered"
    /\ UNCHANGED <<raw, fields, comp, result, origin, parsed, heap, walkVars>>

\* the container is cut to its first or its last n bytes, n < 20
Truncate(n, front) ==
    /\ pc = "compressed"
    /\ buffer' = IF front THEN SubSeq(buffer, 1, n)
                 ELSE SubSeq(buffer, Len(buffer) - n + 1, Len(buffer))
    /\ pc' = "truncated"
    /\ UNCHANGED <<raw, fields, comp, result, origin, prior, parsed, heap, walkVars>>

\* DecompressDVPL(buffer)
Decompress ==
    /\ pc \in {"input", "compressed", "built", "tampered", "truncated"}
    /\ result' = DecompressDVPL(buffer)
    /\ heap' = DecompressDVPLMemory(buffer, result')
    /\ origin' = pc
    /\ pc' = "decoded"
    /\ UNCHANGED <<raw, buffer, fields, comp, prior, parsed, walkVars>>

Next ==
    \/ Compress
    \/ \E o \in OriginalSamples(raw), c \in SizeSamples(raw), k \in CrcSamples(raw),
          t \in TypeSamples, m \in MagicSamples : Build(o, c, k, t, m)
    \/ \E i \in 1..(MaxLen + 1), k \in 0..7 : Tamper(i, k)
    \/ \E n \in 0..(dvplFooterSize - 1), front \in BOOLEAN : Truncate(n, front)
    \/ Decompress

Spec == Init /\ [][Next]_vars

(***************************************************************************)
(* The footer codec on its own: four uint32 fields are drawn, encoded by   *)
(* createDVPLFooter, and read back by readDVPLFooter from a buffer that    *)
(* ends with the encoded footer (raw is what precedes it).                 *)
(***************************************************************************)
U32Samples == {<<0, 0>>, <<0, 258>>, <<258, 772>>, <<65535, 65535>>}

FooterInit ==
    /\ pc = "fields"
    /\ raw \in Buffers
    /\ fields \in [o : U32Samples, c : U32Samples, k : U32Samples, t : U32Samples,
                   m : {dvplFooter}]
    /\ buffer = <<>>
    /\ comp = None
    /\ result = None
    /\ origin = ""
    /\ prior = <<>>
    /\ parsed = NoParse
    /\ heap = NoMemory
    /\ WalkOff

EncodeFooter ==
    /\ pc = "fields"
    /\ buffer' = createDVPLFooter(fields.o, fields.c, fields.k, fields.t)
    /\ pc' = "encoded"
    /\ UNCHANGED <<raw, fields, comp, result, origin, prior, parsed, heap, walkVars>>

ReadFooter ==
    /\ pc = "encoded"
    /\ parsed' = readDVPLFooter(raw \o buffer)
    /\ pc' = "parsed"
    /\ UNCHANGED <<raw, buffer, fields, comp, result, origin, prior, heap, walkVars>>

FooterNext == EncodeFooter \/ ReadFooter

FooterSpec == FooterInit /\ [][FooterNext]_vars

(***************************************************************************)
(* Properties of the codec.                                                *)
(***************************************************************************)
\* what a hand-built container's footer says about its payload
MagicOK == fields.m = dvplFooter
SizeOK == fields.c = <<0, Len(raw)>>
CrcOK == fields.k = ChecksumIEEE(raw)
DecodedBuilt == pc = "decoded" /\ origin = "built"

\* the uint32 stored little-endian in b at Go offset off
LE32(b, off) == <<b[off + 3] + 256 * b[off + 4], b[off + 1] + 256 * b[off + 2]>>

\* C1: codec round-trip.  CompressDVPL succeeds on every buffer, the empty one
\* included, and DecompressDVPL of what it returned succeeds and returns
\* exactly the buffer that was compressed.
C1_RoundTrip ==
    /\ pc = "compressed" => comp.kind = "ok"
    /\ (pc = "decoded" /\ origin = "compressed") =>
           /\ comp.kind = "ok"
           /\ result.kind = "ok"
           /\ result.data = raw

C1_Witness ==
    /\ pc = "decoded" /\ origin = "compressed"
    /\ Len(raw) > 0
    /\ result.kind = "ok" /\ result.data = raw

\* C2: tamper detection.  After any single bit of the stored payload of a
\* valid container was flipped, DecompressDVPL fails with DVPLCRC32Mismatch
\* and returns no payload.
C2_TamperDetected ==
    (pc = "decoded" /\ origin = "tampered") =>
        /\ result.kind = "error"
        /\ result.err = "DVPLCRC32Mismatch"
        /\ result.data = <<>>

C2_Witness ==
    /\ pc = "decoded" /\ origin = "tampered"
    /\ Len(prior) = Len(buffer) /\ prior # buffer
    /\ result.err = "DVPLCRC32Mismatch"

\* C3: truncation.  DecompressDVPL of any buffer shorter than 20 bytes, the
\* empty one included, returns the InvalidDVPLFooter error as an error value.
C3_ShortIsInvalidFooter ==
    (pc = "decoded" /\ Len(buffer) < dvplFooterSize) =>
        /\ result.kind = "error"
        /\ result.err = "InvalidDVPLFooter"

\* C4: bad magic.  DecompressDVPL of any buffer of at least 20 bytes whose
\* last 4 bytes are not "DVPL" fails with InvalidDVPLFooter, whatever the
\* other footer fields and the payload hold.
C4_BadMagic ==
    (/\ pc = "decoded"
     /\ Len(buffer) >= dvplFooterSize
     /\ SubSeq(buffer, Len(buffer) - 3, Len(buffer)) # <<68, 86, 80, 76>>) =>
        /\ result.kind = "error"
        /\ result.err = "InvalidDVPLFooter"

C4_Witness ==
    /\ DecodedBuilt
    /\ fields.m = <<68, 86, 80, 77>>
    /\ SizeOK /\ CrcOK /\ fields.t = <<0, 2>>
    /\ result.err = "InvalidDVPLFooter"

\* C5: check ordering.  DecompressDVPL checks the magic, then the payload
\* length against footer.compressed_size, then the CRC32, then the type, and
\* the first failing check decides the error: a wrong length gives
\* DVPLSizeMismatch even when the CRC and the type are wrong too, and the LZ4
\* decoder is called only when both the size and the CRC checks passed.
C5_CheckOrder ==
    /\ DecodedBuilt =>
           /\ ~MagicOK => result.err = "InvalidDVPLFooter"
           /\ (MagicOK /\ ~SizeOK) => result.err = "DVPLSizeMismatch"
           /\ (MagicOK /\ SizeOK /\ ~CrcOK) => result.err = "DVPLCRC32Mismatch"
           /\ (\E i \in 1..Len(result.steps) : result.steps[i] = "lz4") =>
                  (MagicOK /\ SizeOK /\ CrcOK)
    /\ (pc = "decoded" /\ result.kind # "panic") =>
           \E n \in 1..5 :
               result.steps = SubSeq(<<"footer", "size", "crc", "type", "lz4">>, 1, n)

C5_Witness ==
    /\ DecodedBuilt
    /\ MagicOK /\ ~SizeOK /\ ~CrcOK /\ fields.t = <<0, 3>>
    /\ result.err = "DVPLSizeMismatch"

\* C6: stored-type invariant.  A container with valid magic, matching payload
\* length and matching CRC whose footer has type 0 and original_size different
\* from compressed_size fails with DVPLTypeSizeMismatch and returns no payload.
C6_StoredTypeSize ==
    (/\ DecodedBuilt
     /\ MagicOK /\ SizeOK /\ CrcOK
     /\ fields.t = <<0, 0>>
     /\ fields.o # fields.c) =>
        /\ result.kind = "error"
        /\ result.err = "DVPLTypeSizeMismatch"
        /\ result.data = <<>>

C6_Witness ==
    /\ DecodedBuilt
    /\ MagicOK /\ SizeOK /\ CrcOK
    /\ fields.t = <<0, 0>> /\ fields.o # fields.c /\ Len(raw) > 0
    /\ result.err = "DVPLTypeSizeMismatch"

\* C7: unknown type.  A container with valid magic, matching payload length
\* and matching CRC whose footer type is neither 0 nor 2 fails with the
\* "UNKNOWN DVPL FORMAT" error, for every such type value.
C7_UnknownType ==
    (/\ DecodedBuilt
     /\ MagicOK /\ SizeOK /\ CrcOK
     /\ fields.t \notin {<<0, 0>>, <<0, 2>>}) =>
        /\ result.kind = "error"
        /\ result.err = "UNKNOWN DVPL FORMAT"

C7_Witness ==
    /\ DecodedBuilt
    /\ MagicOK /\ SizeOK /\ CrcOK
    /\ fields.t = <<1, 2>>
    /\ result.err = "UNKNOWN DVPL FORMAT"

\* C8: container invariant of the encoder.  A buffer returned by a successful
\* CompressDVPL(raw) is compressed_size + 20 bytes long, ends with "DVPL", and
\* its footer holds original_size = len(raw), compressed_size = the number of
\* payload bytes, crc32 = CRC32-IEEE of the payload bytes and type 2, also
\* when the payload is longer than the input.
C8_ContainerInvariant ==
    (comp.kind = "ok") =>
        LET n == Len(comp.data) - dvplFooterSize
        IN  /\ n >= 0
            /\ SubSeq(comp.data, n + 17, n + 20) = <<68, 86, 80, 76>>
            /\ LE32(comp.data, n) = <<0, Len(raw)>>
            /\ LE32(comp.data, n + 4) = <<0, n>>
            /\ LE32(comp.data, n + 8) = ChecksumIEEE(SubSeq(comp.data, 1, n))
            /\ LE32(comp.data, n + 12) = <<0, 2>>

C8_Witness ==
    /\ pc = "compressed"
    /\ comp.kind = "ok"
    /\ buffer = comp.data
    /\ Len(comp.data) - dvplFooterSize > Len(raw)
    /\ LE32(comp.data, Len(comp.data) - dvplFooterSize + 12) = <<0, 2>>

\* C9: footer round-trip.  createDVPLFooter(o, c, k, t) is exactly 20 bytes,
\* the four fields little-endian at offsets 0, 4, 8 and 12 and "DVPL" at
\* offset 16, and readDVPLFooter of any buffer ending with those 20 bytes
\* succeeds and yields exactly (o, c, k, t).
C9_FooterRoundTrip ==
    /\ pc \in {"encoded", "parsed"} =>
           /\ Len(buffer) = 20
           /\ \A i \in 1..20 : buffer[i] \in 0..255
           /\ LE32(buffer, 0) = fields.o
           /\ LE32(buffer, 4) = fields.c
           /\ LE32(buffer, 8) = fields.k
           /\ LE32(buffer, 12) = fields.t
           /\ SubSeq(buffer, 17, 20) = <<68, 86, 80, 76>>
    /\ pc = "parsed" =>
           /\ parsed.kind = "ok"
           /\ parsed.footer = [OriginalSize |-> fields.o, CompressedSize |-> fields.c,
                               CRC32 |-> fields.k, Type |-> fields.t]

C9_Witness ==
    /\ pc = "parsed"
    /\ Len(raw) > 0
    /\ fields.o = <<258, 772>> /\ fields.c = <<0, 258>>
    /\ fields.k = <<65535, 65535>> /\ fields.t = <<0, 0>>
    /\ buffer[1] = 4 /\ buffer[4] = 1 /\ buffer[12] = 255
    /\ parsed.footer.OriginalSize = <<258, 772>>

\* C19: decoded length.  Whenever DecompressDVPL succeeds the buffer it
\* returns is exactly footer.original_size bytes long: with type 0 it is the
\* payload unchanged and original_size = compressed_size; with type 2 it is
\* what LZ4 produced into a buffer of original_size bytes, accepted only when
\* the number of bytes produced is original_size, and otherwise the error is
\* DVPLDecodeSizeMismatch, or the decoder's own error when the decoder fails.
C19_DecodedLength ==
    (pc = "decoded" /\ Len(buffer) >= dvplFooterSize) =>
        LET n == Len(buffer) - dvplFooterSize
            payload == SubSeq(buffer, 1, n)
            o == LE32(buffer, n)
            c == LE32(buffer, n + 4)
            t == LE32(buffer, n + 12)
            u == UncompressBlock(payload, o)
        IN  /\ result.kind = "ok" =>
                  /\ o = <<0, Len(result.data)>>
                  /\ t \in {<<0, 0>>, <<0, 2>>}
                  /\ t = <<0, 0>> => result.data = payload /\ o = c
                  /\ t = <<0, 2>> => result.data = u.data /\ u.err = "" /\ o = <<0, u.n>>
            /\ "lz4" \in {result.steps[i] : i \in 1..Len(result.steps)} =>
                  /\ t = <<0, 2>>
                  /\ u.err # "" => result.kind = "error" /\ result.err = u.err
                  /\ (u.err = "" /\ o # <<0, u.n>>) =>
                        result.kind = "error" /\ result.err = "DVPLDecodeSizeMismatch"

\* a hand-built LZ4 container whose one-literal block decodes to the one byte
\* the footer announces
C19_Witness ==
    /\ DecodedBuilt
    /\ result.kind = "ok"
    /\ fields.t = <<0, 2>>
    /\ Len(raw) = 2
    /\ fields.o = <<0, 1>>
    /\ Len(result.data) = 1

\* the bytes of the slice the last call returned
ReturnedBytes == SubSeq(heap.arrays[heap.ret.array], 1, heap.ret.len)

MaxFiles == 2

\* the directories "d" and "d/s"
Root == <<100>>
Sub == Join(Root, <<115>>)

\* the file names "a", "a.dvpl", "a.dvpl.dvpl", "b.exe", "b.exe.dvpl"
NameA == <<97>>
NameB == <<98, 46, 101, 120, 101>>
Slots == {Join(Root, NameA), Join(Root, NameA \o dvplExtension),
          Join(Root, NameA \o dvplExtension \o dvplExtension),
          Join(Root, NameB), Join(Root, NameB \o dvplExtension),
          Join(Sub, NameA)}

\* file contents: plain bytes, and for a file named as a container a valid
\* container, one with a payload bit flipped, and one too short for a footer
Packed == CompressDVPL(<<65>>).data
Corrupt == [Packed EXCEPT ![2] = FlipBit(Packed[2], 0)]
ContentsFor(path) ==
    IF HasSuffix(path, dvplExtension) THEN {Packed, Corrupt, <<1>>}
    ELSE {<<>>, <<65>>}

Trees ==
    {t \in UNION {[S -> {<<>>, <<65>>, Packed, Corrupt, <<1>>}] :
                    S \in {X \in SUBSET Slots : Cardinality(X) <= MaxFiles}} :
        \A q \in DOMAIN t : t[q] \in ContentsFor(q)}

Modes == {"compress", "decompress", "verify"}

\* config.Ignore: "", ".exe", ".dvpl", ".exe,.dvpl"
IgnoreSamples == {<<>>, <<46, 101, 120, 101>>, dvplExtension,
                  <<46, 101, 120, 101>> \o Comma \o dvplExtension}

\* config.Path: the directory "d", or the file "d/a" or "d/a.dvpl"
Paths == {Root, Join(Root, NameA), Join(Root, NameA \o dvplExtension)}

\* a loop whose success count starts at one
Frame_StartsAtOne(path, todo) ==
    [path |-> path, todo |-> todo, succ |-> 1, fail |-> 0, ign |-> 0, err |-> "",
     faults |-> 0]

\* the loop of the caller of ProcessFiles(path): one path to visit
Frame(path, todo) ==
    [path |-> path, todo |-> todo, succ |-> 0, fail |-> 0, ign |-> 0, err |-> "",
     faults |-> 0]

\* a call that returned
Called(path, succ, fail, ign, err) ==
    [path |-> path, succ |-> succ, fail |-> fail, ign |-> ign, err |-> err]

WalkInit ==
    /\ CodecOff
    /\ fs \in Trees
    /\ dirs = {Root, Sub}
    /\ cfg = NoConfig
    /\ stack = <<>>
    /\ ret = NoRet
    /\ wpc = "idle"
    /\ ops = <<>>
    /\ budget = 0
    /\ fs0 = fs
    /\ walks = <<>>
    /\ calls = <<>>

Begin(config) ==
    /\ cfg' = config
    /\ stack' = <<Frame(<<>>, <<config.Path>>)>>
    /\ ret' = NoRet
    /\ wpc' = "walking"
    /\ ops' = <<>>
    /\ calls' = <<>>
    /\ UNCHANGED <<fs, dirs, budget, fs0, walks, codecVars>>

\* the command line's call ProcessFiles(config.Path, config), or
\* VerifyDVPLFiles(config.Path, config) in mode verify
Call(mode, keep, ignore, path) ==
    /\ wpc = "idle"
    /\ Begin([Mode |-> mode, KeepOriginals |-> keep, Path |-> path,
              Ignore |-> ignore])

\* a second run of the program on the same path, with the same ignore list
CallAgain(mode, keep) ==
    /\ wpc = "returned"
    /\ Len(walks) = 1
    /\ Begin([Mode |-> mode, KeepOriginals |-> keep, Path |-> cfg.Path,
              Ignore |-> cfg.Ignore])

\* the failures the operating system may make in the call on path
FaultsAt(path) ==
    IF budget = 0 THEN {"none"}
    ELSE IF path \in dirs THEN {"none", "stat", "list"}
    ELSE {"none", "stat", "read", "write", "remove"}

\* an Account in which no caller keeps the error
Account_DropError(frame, succ, fail, ign, err, isTop) ==
    [frame EXCEPT !.succ = @ + succ, !.fail = @ + fail, !.ign = @ + ign]

\* an Account that forgets the ignored files
Account_DropIgnored(frame, succ, fail, ign, err, isTop) ==
    [frame EXCEPT !.succ = @ + succ, !.fail = @ + fail,
                  !.err = IF isTop THEN err ELSE @]

\* an Account that keeps the success count of the last call only
Account_LastSuccess(frame, succ, fail, ign, err, isTop) ==
    [frame EXCEPT !.succ = succ, !.fail = @ + fail, !.ign = @ + ign,
                  !.err = IF isTop THEN err ELSE @]

\* the counts and error of a returned call added to its caller's loop; only
\* the top-level caller keeps the error, a directory loop prints it
Account(frame, succ, fail, ign, err, isTop) ==
    [frame EXCEPT !.succ = @ + succ, !.fail = @ + fail, !.ign = @ + ign,
                  !.err = IF isTop THEN err ELSE @]

\* the file branch of the function the mode selects
fileBranch(files, directories, path, config, fault) ==
    IF config.Mode = "verify" THEN verifyFile(files, path, fault)
    ELSE processFile(files, directories, path, config, fault)

\* ProcessFiles(path), or VerifyDVPLFiles(path), is called for the next path
\* of the innermost loop: a failed Stat or ReadDir returns the error, a
\* directory starts its own loop over listing, the entries ReadDir returned,
\* a regular file is processed with one of results, what the file branch
\* does.
VisitOf(fault, listing, results) ==
    /\ wpc = "walking"
    /\ LET n == Len(stack)
           top == stack[n]
       IN  /\ top.todo # <<>>
           /\ LET path == Head(top.todo)
                  rest == [top EXCEPT !.todo = Tail(@)]
                  isTop == n = 1
              IN  /\ fault \in FaultsAt(path)
                  /\ budget' = IF fault = "none" THEN budget ELSE budget - 1
                  /\ IF fault = "stat" \/ (path \notin dirs /\ path \notin DOMAIN fs)
                     THEN /\ stack' = [stack EXCEPT ![n] =
                                          Account(rest, 0, 0, 0, "stat", isTop)]
                          /\ calls' = Append(calls, Called(path, 0, 0, 0, "stat"))
                          /\ UNCHANGED <<fs, ops, wpc, ret, walks>>
                     ELSE IF path \in dirs
                     THEN /\ IF fault = "list"
                             THEN /\ stack' = [stack EXCEPT ![n] =
                                               Account(rest, 0, 0, 0, "list", isTop)]
                                  /\ calls' = Append(calls,
                                                     Called(path, 0, 0, 0, "list"))
                             ELSE /\ stack' = Append([stack EXCEPT ![n] = rest],
                                                  Frame(path, listing))
                                  /\ UNCHANGED calls
                          /\ UNCHANGED <<fs, ops, wpc, ret, walks>>
                     ELSE \E r \in results :
                              /\ fs' = r.files
                              /\ ops' = ops \o r.ops
                              /\ IF r.panic
                                 THEN /\ wpc' = "crashed"
                                      /\ ret' = [NoRet EXCEPT !.err = r.err,
                                                              !.panic = TRUE]
                                      /\ walks' = Append(walks,
                                                         [cfg |-> cfg, ret |-> ret'])
                                      /\ UNCHANGED <<stack, calls>>
                                 ELSE /\ stack' = [stack EXCEPT ![n] =
                                                      Account(rest, r.succ, r.fail,
                                                              r.ign, r.err, isTop)]
                                      /\ calls' = Append(calls,
                                                     Called(path, r.succ, r.fail,
                                                            r.ign, r.err))
                                      /\ UNCHANGED <<wpc, ret, walks>>
    /\ UNCHANGED <<dirs, cfg, fs0, codecVars>>

\* the path the innermost loop calls on next
NextPath == Head(stack[Len(stack)].todo)

\* the call on the next path when ReadDir returned listing
VisitIn(fault, listing) ==
    VisitOf(fault, listing, {fileBranch(fs, dirs, NextPath, cfg, fault)})

\* the call on the next path, with the listing os.ReadDir returns
Visit(fault) ==
    /\ wpc = "walking"
    /\ stack[Len(stack)].todo # <<>>
    /\ VisitIn(fault, ReadDir(fs, dirs, NextPath))

\* the innermost loop is over: the call returns its counts, and a nil error,
\* to its caller
Return ==
    /\ wpc = "walking"
    /\ LET n == Len(stack)
           top == stack[n]
       IN  /\ top.todo = <<>>
           /\ IF n > 1
              THEN /\ stack' = [SubSeq(stack, 1, n - 1) EXCEPT ![n - 1] =
                                   Account(@, top.succ, top.fail, top.ign, "", n = 2)]
                   /\ calls' = Append(calls, Called(top.path, top.succ, top.fail,
                                                    top.ign, ""))
                   /\ UNCHANGED <<ret, wpc, walks>>
              ELSE /\ stack' = <<>>
                   /\ ret' = [succ |-> top.succ, fail |-> top.fail, ign |-> top.ign,
                              err |-> top.err, panic |-> FALSE]
                   /\ wpc' = "returned"
                   /\ walks' = Append(walks, [cfg |-> cfg, ret |-> ret'])
                   /\ UNCHANGED calls
    /\ UNCHANGED <<fs, dirs, cfg, ops, budget, fs0, codecVars>>

WalkNext ==
    \/ \E mode \in Modes, keep \in BOOLEAN, ignore \in IgnoreSamples, path \in Paths :
          Call(mode, keep, ignore, path)
    \/ \E mode \in Modes, keep \in BOOLEAN : CallAgain(mode, keep)
    \/ \E fault \in {"none", "stat", "list", "read", "write", "remove"} : Visit(fault)
    \/ Return

WalkSpec == WalkInit /\ [][WalkNext]_vars

(***************************************************************************)
(* One walk in which the operating system may fail: Stat, ReadDir,         *)
(* ReadFile, WriteFile or Remove returns an error, at most MaxFaults times. *)
(***************************************************************************)
MaxFaults == 1

FaultInit ==
    /\ CodecOff
    /\ fs \in Trees
    /\ dirs = {Root, Sub}
    /\ cfg = NoConfig
    /\ stack = <<>>
    /\ ret = NoRet
    /\ wpc = "idle"
    /\ ops = <<>>
    /\ budget = MaxFaults
    /\ fs0 = fs
    /\ walks = <<>>
    /\ calls = <<>>

FaultNext ==
    \/ \E mode \in Modes, keep \in BOOLEAN, ignore \in IgnoreSamples, path \in Paths :
          Call(mode, keep, ignore, path)
    \/ \E fault \in {"none", "stat", "list", "read", "write", "remove"} : Visit(fault)
    \/ Return

FaultSpec == FaultInit /\ [][FaultNext]_vars

(***************************************************************************)
(* Properties of two walks in a row.                                       *)
(***************************************************************************)
\* no file of the tree is named as a container
NoDvpl(files) == \A q \in DOMAIN files : ~HasSuffix(q, dvplExtension)

\* a compress walk with an empty ignore list, then a decompress walk that
\* keeps its inputs, and the second is over
RoundTripDone ==
    /\ Len(walks) = 2
    /\ wpc \in {"returned", "crashed"}
    /\ walks[1].cfg.Mode = "compress"
    /\ walks[1].cfg.Path = Root
    /\ walks[1].cfg.Ignore = <<>>
    /\ walks[2].cfg.Mode = "decompress"
    /\ walks[2].cfg.KeepOriginals

\* C10 as stated: after ProcessFiles in mode compress on any directory and
\* then ProcessFiles in mode decompress with keep_originals, both returned,
\* every original file is there under its name with its bytes, and the
\* container of every original that was compressed is there too.
C10_Original ==
    (RoundTripDone /\ wpc = "returned") =>
        \A q \in DOMAIN fs0 :
            /\ q \in DOMAIN fs
            /\ fs[q] = fs0[q]
            /\ HasSuffix(q, dvplExtension) \/ (q \o dvplExtension) \in DOMAIN fs

\* C10: traversal round-trip on a tree of plain files.  When no file of the
\* directory is named *.dvpl and the ignore list is empty, ProcessFiles in
\* mode compress and then ProcessFiles in mode decompress with
\* keep_originals both return without an error, every original file is
\* there under its name with its bytes, next to its container, and nothing
\* else is.
C10_RoundTripPlainTree ==
    (RoundTripDone /\ NoDvpl(fs0)) =>
        /\ wpc = "returned"
        /\ walks[1].ret.err = "" /\ walks[2].ret.err = ""
        /\ walks[1].ret.succ = Cardinality(DOMAIN fs0)
        /\ walks[2].ret.succ = Cardinality(DOMAIN fs0)
        /\ \A q \in DOMAIN fs0 :
              /\ q \in DOMAIN fs
              /\ fs[q] = fs0[q]
              /\ (q \o dvplExtension) \in DOMAIN fs
              /\ fs[q \o dvplExtension] = CompressDVPL(fs0[q]).data
        /\ DOMAIN fs = DOMAIN fs0 \cup {q \o dvplExtension : q \in DOMAIN fs0}

C10_Witness ==
    /\ RoundTripDone
    /\ wpc = "returned"
    /\ ~walks[1].cfg.KeepOriginals
    /\ DOMAIN fs0 = {Join(Root, NameA), Join(Sub, NameA)}
    /\ fs0[Join(Root, NameA)] = <<65>>
    /\ fs0[Join(Sub, NameA)] = <<>>
    /\ fs[Join(Root, NameA)] = <<65>>
    /\ Join(Sub, NameA \o dvplExtension) \in DOMAIN fs
    /\ walks[2].ret.succ = 2

(***************************************************************************)
(* Properties of one walk.                                                 *)
(***************************************************************************)
\* the first walk, on the directory, has returned
FirstWalkDone(mode) ==
    /\ Len(walks) = 1
    /\ wpc = "returned"
    /\ cfg.Mode = mode
    /\ cfg.Path = Root

\* the entries of a comma-separated ignore list
IgnoreList(ignore) == IF ignore = <<>> THEN {} ELSE Split(ignore, <<>>)

\* the files a compress walk is to convert
EligibleToCompress(files, ignore) ==
    {q \in DOMAIN files : /\ ~HasSuffix(q, dvplExtension)
                          /\ Ext(q) \notin IgnoreList(ignore)}

\* C11: compress walk outcome.  With no operating-system failure, ProcessFiles
\* in mode compress on a directory returns success = number of eligible files
\* (name not ending in .dvpl, extension not in the ignore list), failure = 0,
\* ignored = number of the other files, and no error; afterwards every
\* eligible file f has its container at f.dvpl, and f itself is absent
\* unless keep_originals is set, in which case it is there unchanged.
C11_CompressOutcome ==
    FirstWalkDone("compress") =>
        LET eligible == EligibleToCompress(fs0, cfg.Ignore)
        IN  /\ ret.succ = Cardinality(eligible)
            /\ ret.fail = 0
            /\ ret.ign = Cardinality(DOMAIN fs0 \ eligible)
            /\ ret.err = ""
            /\ \A f \in eligible :
                  /\ (f \o dvplExtension) \in DOMAIN fs
                  /\ fs[f \o dvplExtension] = CompressDVPL(fs0[f]).data
                  /\ IF cfg.KeepOriginals
                     THEN f \in DOMAIN fs /\ fs[f] = fs0[f]
                     ELSE f \notin DOMAIN fs

\* "a" and "b.exe" with ".exe" ignored give (1, 0, 1)
C11_Witness ==
    /\ FirstWalkDone("compress")
    /\ cfg.Ignore = <<46, 101, 120, 101>>
    /\ ~cfg.KeepOriginals
    /\ DOMAIN fs0 = {Join(Root, NameA), Join(Root, NameB)}
    /\ ret.succ = 1 /\ ret.fail = 0 /\ ret.ign = 1
    /\ Join(Root, NameA \o dvplExtension) \in DOMAIN fs
    /\ Join(Root, NameA) \notin DOMAIN fs
    /\ Join(Root, NameB) \in DOMAIN fs

\* ".exe"
DotExe == <<46, 101, 120, 101>>

\* C12: extension filtering.  In a compress walk with ".exe" in the ignore
\* list no file whose extension is .exe is read, written or removed, and the
\* call on such a file returns (0, 0, 1) and no error: it adds 1 to the
\* ignored count and nothing to the success and failure counts.
C12_IgnoredExtension ==
    (cfg.Mode = "compress" /\ DotExe \in IgnoreList(cfg.Ignore)) =>
        /\ \A i \in 1..Len(ops) : ~HasSuffix(ops[i][2], DotExe)
        /\ \A i \in 1..Len(calls) :
              (calls[i].path \notin dirs /\ HasSuffix(calls[i].path, DotExe)) =>
                  calls[i] = Called(calls[i].path, 0, 0, 1, "")

C12_Witness ==
    /\ cfg.Mode = "compress"
    /\ wpc = "returned"
    /\ DotExe \in IgnoreList(cfg.Ignore)
    /\ \E i \in 1..Len(calls) : calls[i] = Called(Join(Root, NameB), 0, 0, 1, "")
    /\ \E i \in 1..Len(ops) : ops[i] = <<"write", Join(Root, NameA \o dvplExtension)>>
    /\ fs[Join(Root, NameB)] = fs0[Join(Root, NameB)]

\* the call with record c was on a container the decoder does not accept
FailedToDecode(c) ==
    /\ HasSuffix(c.path, dvplExtension)
    /\ Ext(c.path) \notin IgnoreList(cfg.Ignore)
    /\ c.path \in DOMAIN fs
    /\ DecompressDVPL(fs[c.path]).kind # "ok"

\* C13: soft codec failure.  In a decompress walk a file the codec fails on
\* never ends the walk, and the call on it returns (0, 1, 0) and no error,
\* writes no output and removes nothing, whatever keep_originals is.
C13_SoftCodecFailure ==
    cfg.Mode = "decompress" =>
        /\ wpc # "crashed"
        /\ \A i \in 1..Len(calls) :
              (calls[i].path \notin dirs /\ FailedToDecode(calls[i])) =>
                  /\ calls[i] = Called(calls[i].path, 0, 1, 0, "")
                  /\ \A j \in 1..Len(ops) :
                        /\ ops[j] # <<"remove", calls[i].path>>
                        /\ ops[j] # <<"write",
                                      TrimSuffix(calls[i].path, dvplExtension)>>

(***************************************************************************)
(* Properties of a walk in which the operating system may fail.            *)
(***************************************************************************)
\* the calls that returned an error
Failed == {i \in 1..Len(calls) : calls[i].err # ""}

\* the call on the root path, if it has returned
RootCalls == {i \in 1..Len(calls) : calls[i].path = cfg.Path}

\* C14 as stated: whenever the stat of the root, or a listing, a read or a
\* write anywhere in the walked tree fails, the top-level ProcessFiles call
\* returns that failure as its error.
C14_Original ==
    (wpc = "returned" /\ cfg.Mode \in {"compress", "decompress"}) =>
        \A i \in Failed :
            (calls[i].err \in {"list", "read", "write"} \/ calls[i].path = cfg.Path) =>
                ret.err = calls[i].err

\* C14: hard errors go to the caller of the call they occur in.  A call of
\* ProcessFiles in which Stat, ReadDir, ReadFile or WriteFile fails returns
\* (0, 0, 0) and that error; the top-level call returns an error exactly when
\* the failure is in the call on the root path itself, and then with counts
\* (0, 0, 0); a directory whose listing succeeded returns a nil error whatever
\* its children returned, after calling every entry it listed.
C14_HardErrorToCaller ==
    cfg.Mode \in {"compress", "decompress"} =>
        /\ \A i \in Failed :
              /\ calls[i].err \in {"stat", "list", "read", "write"}
              /\ calls[i].succ = 0 /\ calls[i].fail = 0 /\ calls[i].ign = 0
              /\ calls[i].path \in dirs => calls[i].err \in {"stat", "list"}
        /\ wpc = "returned" =>
              /\ \A i \in RootCalls : ret.err = calls[i].err
              /\ ret.err # "" => ret.succ = 0 /\ ret.fail = 0 /\ ret.ign = 0
              /\ \A i \in 1..Len(calls) :
                    (calls[i].path \in dirs /\ calls[i].err = "") =>
                        \A q \in DOMAIN fs0 :
                            q \in Children(fs0, dirs, calls[i].path) =>
                                \E j \in 1..i : calls[j].path = q

\* reading d/a failed, d/b.exe after it was compressed, and the top-level
\* call returned a nil error
C14_Witness ==
    /\ wpc = "returned"
    /\ cfg.Mode = "compress"
    /\ cfg.Path = Root
    /\ ret.err = ""
    /\ ret.succ = 1
    /\ \E i \in Failed :
          /\ calls[i] = Called(Join(Root, NameA), 0, 0, 0, "read")
          /\ \E j \in (i + 1)..Len(calls) :
                calls[j] = Called(Join(Root, NameB), 1, 0, 0, "")
    /\ Join(Root, NameB \o dvplExtension) \in DOMAIN fs

\* C15: verify is read-only.  At every point of a VerifyDVPLFiles walk,
\* whatever the tree holds and whatever fails, the files and their contents
\* are those before the call: nothing is created, overwritten or deleted.
C15_VerifyReadOnly ==
    cfg.Mode = "verify" =>
        /\ fs = fs0
        /\ \A i \in 1..Len(ops) : ops[i][1] = "read"

\* a valid and a damaged container were verified
C15_Witness ==
    /\ cfg.Mode = "verify"
    /\ wpc = "returned"
    /\ ret.succ = 1 /\ ret.fail = 1
    /\ Len(ops) = 2
    /\ fs = fs0
    /\ Cardinality(DOMAIN fs) = 2

\* the name ProcessFiles gives the output of the input q, and its bytes
OutputName(q) ==
    IF cfg.Mode = "compress" THEN q \o dvplExtension
    ELSE SubSeq(q, 1, Len(q) - Len(dvplExtension))

OutputBytes(q) ==
    IF cfg.Mode = "compress" THEN CompressDVPL(fs0[q]).data
    ELSE DecompressDVPL(fs0[q]).data

\* C16: keep_originals and deletion order.  In a ProcessFiles walk with
\* keep_originals set nothing is ever removed; with it unset a file is
\* removed only as the step right after the successful write of its output,
\* so at every point of the walk a file that is gone has its converted form
\* on disk.
C16_DeleteAfterWrite ==
    cfg.Mode \in {"compress", "decompress"} =>
        /\ cfg.KeepOriginals =>
              /\ \A j \in 1..Len(ops) : ops[j][1] # "remove"
              /\ DOMAIN fs0 \subseteq DOMAIN fs
        /\ \A j \in 1..Len(ops) :
              ops[j][1] = "remove" =>
                  /\ j > 2
                  /\ ops[j - 1] = <<"write", OutputName(ops[j][2])>>
                  /\ ops[j - 2] = <<"read", ops[j][2]>>
        /\ \A q \in DOMAIN fs0 \ DOMAIN fs :
              /\ OutputName(q) \in DOMAIN fs
              /\ fs[OutputName(q)] = OutputBytes(q)

\* the write of d/a.dvpl failed and d/a is still there; d/b.exe was removed
\* after d/b.exe.dvpl was written
C16_Witness ==
    /\ cfg.Mode = "compress"
    /\ ~cfg.KeepOriginals
    /\ wpc = "returned"
    /\ \E i \in 1..Len(calls) : calls[i] = Called(Join(Root, NameA), 0, 0, 0, "write")
    /\ Join(Root, NameA) \in DOMAIN fs
    /\ Join(Root, NameA \o dvplExtension) \notin DOMAIN fs
    /\ Join(Root, NameB) \notin DOMAIN fs
    /\ \E j \in 2..Len(ops) :
          /\ ops[j] = <<"remove", Join(Root, NameB)>>
          /\ ops[j - 1] = <<"write", Join(Root, NameB \o dvplExtension)>>

\* the path of the running program's own binary, when it lies in the
\* directory walked: "d/b.exe"
Executable == Join(Root, NameB)

\* C17: self-skip.  In every mode the file at the running program's own
\* executable path is never read, written or removed, and the call on it
\* returns (0, 0, 1) and no error.
C17_SelfSkip ==
    /\ \A j \in 1..Len(ops) : ops[j][2] # Executable
    /\ \A i \in 1..Len(calls) :
          calls[i].path = Executable => calls[i] = Called(Executable, 0, 0, 1, "")

\* the calls on regular files that returned
FileCalls == {i \in 1..Len(calls) : calls[i].path \notin dirs}

\* C18: aggregate totals.  Every traversal call, ProcessFiles or
\* VerifyDVPLFiles, comes to its end and returns to its caller the triple
\* that counts each file called on as a success, a failure or ignored, even
\* when the codec, a read or a write failed on some of the files.
C18_TotalsAvailable ==
    /\ wpc # "crashed"
    /\ wpc = "returned" =>
          /\ ret.succ = Cardinality({i \in FileCalls : calls[i].succ = 1})
          /\ ret.fail = Cardinality({i \in FileCalls : calls[i].fail = 1})
          /\ ret.ign = Cardinality({i \in FileCalls : calls[i].ign = 1})

(***************************************************************************)
(* Properties of the file branch, by mode.                                 *)
(***************************************************************************)
\* the calls of the current walk on regular files that were found
FoundFileCalls == {i \in 1..Len(calls) : calls[i].path \notin dirs /\ calls[i].err # "stat"}

\* the current walk read the file at path
WasRead(path) == \E j \in 1..Len(ops) : ops[j] = <<"read", path>>

\* a decompress walk is to convert the file at path
EligibleToDecompress(path, ignore) ==
    /\ HasSuffix(path, dvplExtension)
    /\ Ext(path) \notin IgnoreList(ignore)

\* C21: decompress eligibility.  In a decompress walk a file is converted
\* (read, and not counted as ignored) iff its name ends with ".dvpl" and its
\* extension is not in the ignore list; every other file is not read and its
\* call returns (0, 0, 1); and every output is written to the path of the
\* input just read with exactly its last ".dvpl" taken off.
C21_DecompressEligibility ==
    cfg.Mode = "decompress" =>
        /\ \A i \in FoundFileCalls :
              IF EligibleToDecompress(calls[i].path, cfg.Ignore)
              THEN calls[i].ign = 0 /\ WasRead(calls[i].path)
              ELSE calls[i] = Called(calls[i].path, 0, 0, 1, "")
                   /\ ~WasRead(calls[i].path)
        /\ \A j \in 1..Len(ops) :
              ops[j][1] = "write" =>
                  /\ j > 1
                  /\ ops[j - 1][1] = "read"
                  /\ ops[j - 1][2] = ops[j][2] \o dvplExtension

\* d/a.dvpl.dvpl became d/a.dvpl, and d/b.exe was counted as ignored
C21_Witness ==
    /\ FirstWalkDone("decompress")
    /\ ~cfg.KeepOriginals
    /\ DOMAIN fs0 = {Join(Root, NameA \o dvplExtension \o dvplExtension), Join(Root, NameB)}
    /\ DOMAIN fs = {Join(Root, NameA \o dvplExtension), Join(Root, NameB)}
    /\ fs[Join(Root, NameA \o dvplExtension)] = <<65>>
    /\ ret.succ = 1 /\ ret.fail = 0 /\ ret.ign = 1

\* what the claim says a VerifyDVPLFiles call on the file at path returns
VerifyTriple(path) ==
    IF ~HasSuffix(path, dvplExtension) THEN Called(path, 0, 0, 1, "")
    ELSE IF DecompressDVPL(fs[path]).kind = "ok" THEN Called(path, 1, 0, 0, "")
    ELSE Called(path, 0, 1, 0, "")

\* the walk is over, by a return or by the end of the process
WalkOver == wpc \in {"returned", "crashed"}

\* C22: verify classification.  In a VerifyDVPLFiles walk, whatever the
\* ignore list, a file whose name does not end in ".dvpl" is counted as
\* ignored, and a file whose name does is read and counted: as a success when
\* DecompressDVPL succeeds on its bytes, as a failure otherwise.
C22_VerifyClassification ==
    cfg.Mode = "verify" =>
        /\ \A i \in FoundFileCalls : calls[i] = VerifyTriple(calls[i].path)
        /\ WalkOver =>
              \A q \in DOMAIN fs :
                  WasRead(q) => \E i \in FoundFileCalls : calls[i] = VerifyTriple(q)

(***************************************************************************)
(* Properties of the directory loop.                                       *)
(***************************************************************************)
\* the directories the current walk has listed: their loop is in progress,
\* or their call returned without an error
Listed ==
    {d \in dirs : \/ \E k \in 1..Len(stack) : stack[k].path = d
                  \/ \E i \in 1..Len(calls) : calls[i].path = d /\ calls[i].err = ""}

\* a call on path has returned
WasCalled(path) == \E i \in 1..Len(calls) : calls[i].path = path

\* C23: partial-failure isolation.  When a walk is over, every child of
\* every directory it listed has been called on and its call has returned,
\* whatever the earlier children's calls did: converted, failed in the
\* codec, failed to read or write, or failed to list a sub-directory.
C23_Isolation ==
    WalkOver => \A d \in Listed : \A q \in Children(fs0, dirs, d) : WasCalled(q)

(***************************************************************************)
(* One walk without failures of the operating system, in which a           *)
(* directory's entries come in any order.  os.ReadDir returns them sorted  *)
(* by file name; the loop over dirList takes them as they come, and here   *)
(* they come in every order.                                               *)
(***************************************************************************)
\* the sequences that hold each element of S once
RECURSIVE Orders(_)
Orders(S) ==
    IF S = {} THEN {<<>>}
    ELSE UNION {{<<x>> \o q : q \in Orders(S \ {x})} : x \in S}

\* the listings of the next path, in every order
NextListings ==
    IF wpc = "walking" /\ stack[Len(stack)].todo # <<>>
    THEN Orders(Children(fs, dirs, NextPath))
    ELSE {}

OrderNext ==
    \/ \E mode \in {"compress", "decompress"}, keep \in BOOLEAN, ignore \in IgnoreSamples :
          Call(mode, keep, ignore, Root)
    \/ \E listing \in NextListings : VisitIn("none", listing)
    \/ Return

OrderSpec == WalkInit /\ [][OrderNext]_vars

\* ProcessFiles as a function of the tree: what the call on path leaves and
\* returns when every listing is in os.ReadDir's order and nothing fails in
\* the operating system; acc holds the files and the counts so far
Walked(files, succ, fail, ign, panic) ==
    [files |-> files, succ |-> succ, fail |-> fail, ign |-> ign, panic |-> panic]

RECURSIVE ProcessFiles(_, _, _, _)
RECURSIVE rangeDirList(_, _, _, _)
ProcessFiles(acc, directories, directoryOrFile, config) ==
    IF acc.panic THEN acc
    ELSE IF directoryOrFile \in directories
    THEN rangeDirList(acc, directories,
                      ReadDir(acc.files, directories, directoryOrFile), config)
    ELSE IF directoryOrFile \notin DOMAIN acc.files THEN acc
    ELSE LET r == fileBranch(acc.files, directories, directoryOrFile, config, "none")
         IN  Walked(r.files, acc.succ + r.succ, acc.fail + r.fail, acc.ign + r.ign,
                    r.panic)

rangeDirList(acc, directories, dirList, config) ==
    IF dirList = <<>> THEN acc
    ELSE rangeDirList(ProcessFiles(acc, directories, Head(dirList), config),
                      directories, Tail(dirList), config)

\* what the walk left and returned, and what it does in os.ReadDir's order
Outcome24 ==
    Walked(fs, IF wpc = "crashed" THEN 0 ELSE ret.succ,
           IF wpc = "crashed" THEN 0 ELSE ret.fail,
           IF wpc = "crashed" THEN 0 ELSE ret.ign, wpc = "crashed")

InReadDirOrder ==
    LET r == ProcessFiles(Walked(fs0, 0, 0, 0, FALSE), dirs, cfg.Path, cfg)
    IN  IF r.panic THEN Walked(r.files, 0, 0, 0, TRUE) ELSE r

C25_DeleteFailureNonFatal ==
    cfg.Mode \in {"compress", "decompress"} =>
        \A j \in 1..Len(ops) :
            ops[j][1] = "remove failed" =>
                /\ j > 2
                /\ ops[j - 2] = <<"read", ops[j][2]>>
                /\ ops[j - 1] = <<"write", OutputName(ops[j][2])>>
                /\ \E i \in 1..Len(calls) : calls[i] = Called(ops[j][2], 1, 0, 0, "")
                /\ ops[j][2] \in DOMAIN fs
                /\ OutputName(ops[j][2]) \in DOMAIN fs
                /\ j = Len(ops) =>
                      /\ fs[ops[j][2]] = fs0[ops[j][2]]
                      /\ fs[OutputName(ops[j][2])] = OutputBytes(ops[j][2])
                /\ wpc = "returned" => ret.err = "" /\ ret.succ >= 1

\* the removal of d/a failed after d/a.dvpl was written
C25_Witness ==
    /\ wpc = "returned"
    /\ cfg.Mode = "compress"
    /\ cfg.Path = Root
    /\ ~cfg.KeepOriginals
    /\ ops = <<<<"read", Join(Root, NameA)>>,
               <<"write", Join(Root, NameA \o dvplExtension)>>,
               <<"remove failed", Join(Root, NameA)>>>>
    /\ DOMAIN fs = {Join(Root, NameA), Join(Root, NameA \o dvplExtension)}
    /\ ret = [succ |-> 1, fail |-> 0, ign |-> 0, err |-> "", panic |-> FALSE]

\* the file at path is not one the walk's mode and ignore list convert
Ineligible(path) ==
    \/ Ext(path) \in IgnoreList(cfg.Ignore)
    \/ cfg.Mode = "compress" /\ HasSuffix(path, dvplExtension)
    \/ cfg.Mode = "decompress" /\ ~HasSuffix(path, dvplExtension)

\* C26 as stated: a file that is ineligible under the mode and ignore list
\* of a ProcessFiles walk is never read, written or removed by it, and is
\* there with the bytes it had before, whatever else the directory holds.
C26_Original ==
    cfg.Mode \in {"compress", "decompress"} =>
        \A q \in DOMAIN fs0 :
            Ineligible(q) =>
                /\ \A j \in 1..Len(ops) : ops[j][2] # q
                /\ q \in DOMAIN fs /\ fs[q] = fs0[q]

\* C26: ineligible files are not read or deleted.  A file that is
\* ineligible under the mode and ignore list of a ProcessFiles walk is never
\* read and never removed by it, and stays in place; it is written only as
\* the output of an eligible file whose output path it is (x.dvpl next to x
\* in compress mode, x next to x.dvpl in decompress mode), and when there is
\* no such write it has the bytes it had before the walk.
C26_IneligibleKept ==
    cfg.Mode \in {"compress", "decompress"} =>
        \A q \in DOMAIN fs0 :
            Ineligible(q) =>
                /\ q \in DOMAIN fs
                /\ \A j \in 1..Len(ops) :
                      ops[j][2] = q =>
                          /\ ops[j][1] = "write"
                          /\ j > 1
                          /\ ops[j - 1][1] = "read"
                          /\ ~Ineligible(ops[j - 1][2])
                          /\ OutputName(ops[j - 1][2]) = q
                /\ (\A j \in 1..Len(ops) : ops[j][2] # q) => fs[q] = fs0[q]

\* d/a.dvpl was counted as ignored, and holds what d/a was compressed to
C26_Witness ==
    /\ wpc = "returned"
    /\ cfg.Mode = "compress"
    /\ cfg.Path = Root
    /\ cfg.Ignore = DotExe
    /\ DOMAIN fs0 = {Join(Root, NameA), Join(Root, NameA \o dvplExtension)}
    /\ fs0[Join(Root, NameA)] = <<65>>
    /\ fs0[Join(Root, NameA \o dvplExtension)] = Corrupt
    /\ \E i \in 1..Len(calls) :
          calls[i] = Called(Join(Root, NameA \o dvplExtension), 0, 0, 1, "")
    /\ fs[Join(Root, NameA \o dvplExtension)] = Packed
    /\ ret.succ = 1 /\ ret.ign = 1

(***************************************************************************)
(* The walk as a process that keeps running: the program is one thread     *)
(* that nothing suspends, so while a call or a return is possible one is   *)
(* made.  What the codec returns for a file is left open: each conversion  *)
(* may yield bytes, an error or a panic.                                   *)
(***************************************************************************)
\* what the codec may return to the file branch: bytes, an error, or a panic
CodecReturns ==
    {Outcome("ok", "", <<>>, <<>>), Outcome("error", "failed", <<>>, <<>>),
     Outcome("panic", "slice bounds out of range", <<>>, <<>>)}

\* the file branch of ProcessFiles or VerifyDVPLFiles, for each thing the
\* codec may return
anyFile(files, directories, directoryOrFile, config, fault) ==
    IF config.Mode = "verify"
    THEN IF ~HasSuffix(directoryOrFile, dvplExtension)
         THEN {Returned(files, 0, 0, 1, "", <<>>)}
         ELSE IF fault = "read"
         THEN {Returned(files, 0, 0, 0, "read", <<>>)}
         ELSE {checkProcessed(files, directoryOrFile, c) : c \in CodecReturns}
    ELSE IF /\ Ext(directoryOrFile) \notin IgnoreList(config.Ignore)
            /\ (config.Mode = "decompress") = HasSuffix(directoryOrFile, dvplExtension)
    THEN IF fault = "read"
         THEN {Returned(files, 0, 0, 0, "read", <<>>)}
         ELSE {storeProcessed(files, directories, directoryOrFile,
                              IF config.Mode = "compress"
                              THEN directoryOrFile \o dvplExtension
                              ELSE TrimSuffix(directoryOrFile, dvplExtension),
                              c, config, fault) : c \in CodecReturns}
    ELSE {Returned(files, 0, 0, 1, "", <<>>)}

\* the call on the next path, whatever the codec returns in it
VisitAny(fault) ==
    /\ wpc = "walking"
    /\ stack[Len(stack)].todo # <<>>
    /\ VisitOf(fault, ReadDir(fs, dirs, NextPath),
               anyFile(fs, dirs, NextPath, cfg, fault))

LiveNext ==
    \/ \E mode \in Modes, keep \in BOOLEAN, ignore \in IgnoreSamples, path \in Paths :
          Call(mode, keep, ignore, path)
    \/ \E fault \in {"none", "stat", "list", "read", "write", "remove"} : VisitAny(fault)
    \/ Return

\* the trees by the names in them: what the files hold is not looked at
LiveInit ==
    /\ FaultInit
    /\ \A q \in DOMAIN fs : fs[q] \in {<<>>, Packed}

LiveSpec == LiveInit /\ [][LiveNext]_vars /\ WF_vars(LiveNext)

\* no path is called on twice, no file is read twice, and every path called
\* on is the path given on the command line or was in the tree, as a file
\* or a directory, before the walk; once the call has returned every entry
\* of every directory it listed has been called on
SingleVisit ==
    /\ \A i, j \in 1..Len(calls) : calls[i].path = calls[j].path => i = j
    /\ \A i, j \in 1..Len(ops) :
          (ops[i][1] = "read" /\ ops[i] = ops[j]) => i = j
    /\ \A i \in 1..Len(calls) : calls[i].path \in DOMAIN fs0 \cup dirs \cup {cfg.Path}
    /\ \A k \in 1..Len(stack) : \A i \in 1..Len(stack[k].todo) :
          /\ ~WasCalled(stack[k].todo[i])
          /\ \A j \in 1..Len(stack[k].todo) : stack[k].todo[i] = stack[k].todo[j] => i = j
    /\ wpc = "returned" =>
          \A d \in Listed : \A q \in Children(fs0, dirs, d) : WasCalled(q)

RECURSIVE SumOf(_, _)
SumOf(I, field) ==
    IF I = {} THEN 0
    ELSE LET i == CHOOSE x \in I : TRUE
         IN  calls[i][field] + SumOf(I \ {i}, field)

\* the calls on the entries of directory d
CallsUnder(d) == {j \in 1..Len(calls) : calls[j].path \in Children(fs0, dirs, d)}

\* the calls on regular files in which the read or the write failed
IOFailed == {i \in FoundFileCalls : calls[i].err \in {"read", "write"}}

CompressedOnce ==
    /\ Len(walks) >= 1
    /\ walks[1].cfg.Mode = "compress"
    /\ ~walks[1].cfg.KeepOriginals
    /\ walks[1].cfg.Ignore = <<>>
    /\ walks[1].cfg.Path = Root
    /\ walks[1].ret.err = "" /\ walks[1].ret.fail = 0 /\ ~walks[1].ret.panic

\* a second walk has started
SecondWalk == Len(walks) = 2 \/ (Len(walks) = 1 /\ wpc = "walking")

\* C29: a compress walk is idempotent on its own result.  After a compress
\* walk on a directory with keep_originals unset and an empty ignore list,
\* every file of the tree has a name that ends in ".dvpl"; a second compress
\* walk on the directory reads, writes and removes nothing, and returns
\* (0, 0, number of files) and no error.
C29_CompressIdempotent ==
    CompressedOnce =>
        /\ (Len(walks) = 1 /\ wpc = "returned") =>
              \A q \in DOMAIN fs : HasSuffix(q, dvplExtension)
        /\ (SecondWalk /\ cfg.Mode = "compress") =>
              /\ ops = <<>>
              /\ \A q \in DOMAIN fs : HasSuffix(q, dvplExtension)
              /\ Len(walks) = 2 =>
                    /\ wpc = "returned"
                    /\ ret = [succ |-> 0, fail |-> 0, ign |-> Cardinality(DOMAIN fs),
                              err |-> "", panic |-> FALSE]

\* d/a and d/s/a were compressed by the first walk and counted as ignored by
\* the second
C29_Witness ==
    /\ CompressedOnce
    /\ Len(walks) = 2
    /\ cfg.Mode = "compress"
    /\ DOMAIN fs0 = {Join(Root, NameA), Join(Sub, NameA)}
    /\ walks[1].ret.succ = 2
    /\ DOMAIN fs = {Join(Root, NameA \o dvplExtension), Join(Sub, NameA \o dvplExtension)}
    /\ ret.ign = 2
    /\ ops = <<>>

(***************************************************************************)
(* Properties of the ignore list.                                          *)
(***************************************************************************)
\* e stands in the comma-separated list between two commas or ends
IsEntry(e, list) ==
    /\ list # <<>>
    /\ \A k \in 1..Len(e) : <<e[k]>> # Comma
    /\ \E i \in 1..(Len(list) + 1) :
          /\ i + Len(e) - 1 <= Len(list)
          /\ SubSeq(list, i, i + Len(e) - 1) = e
          /\ i = 1 \/ <<list[i - 1]>> = Comma
          /\ i + Len(e) - 1 = Len(list) \/ <<list[i + Len(e)]>> = Comma

\* e is the final dot-suffix of path: from the last dot of the last element
\* on, or empty when that element has no dot
IsFinalSuffix(e, path) ==
    /\ HasSuffix(path, e)
    /\ \A k \in 2..Len(e) : <<e[k]>> # Dot /\ <<e[k]>> # Slash
    /\ IF e = <<>>
       THEN \A k \in 1..Len(path) :
                <<path[k]>> = Dot => \E m \in (k + 1)..Len(path) : <<path[m]>> = Slash
       ELSE <<e[1]>> = Dot

\* the final dot-suffix of path is an entry of the walk's ignore list
OnIgnoreList(path) ==
    \E k \in 1..(Len(path) + 1) :
        /\ IsFinalSuffix(SubSeq(path, k, Len(path)), path)
        /\ IsEntry(SubSeq(path, k, Len(path)), cfg.Ignore)

\* C30: ignore-list matching.  In a ProcessFiles walk a file is left out on
\* account of the ignore list exactly when its final dot-suffix equals one of
\* the comma-separated entries of the ignore string: such a file is not read
\* and its call returns (0, 0, 1); in decompress mode a container whose
\* final suffix ".dvpl" is not an entry is converted, whatever suffix comes
\* before ".dvpl", and when ".dvpl" is an entry every file called on is
\* counted as ignored.
C30_IgnoreMatching ==
    cfg.Mode \in {"compress", "decompress"} =>
        \A i \in FoundFileCalls :
            /\ OnIgnoreList(calls[i].path) =>
                  calls[i] = Called(calls[i].path, 0, 0, 1, "") /\ ~WasRead(calls[i].path)
            /\ (/\ ~OnIgnoreList(calls[i].path)
                /\ (cfg.Mode = "decompress") = HasSuffix(calls[i].path, dvplExtension)) =>
                  calls[i].ign = 0 /\ WasRead(calls[i].path)
            /\ (cfg.Mode = "decompress" /\ IsEntry(dvplExtension, cfg.Ignore)) =>
                  calls[i] = Called(calls[i].path, 0, 0, 1, "")

\* with ".exe" ignored, d/b.exe.dvpl was decompressed to d/b.exe
C30_Witness ==
    /\ FirstWalkDone("decompress")
    /\ cfg.Ignore = DotExe
    /\ ~cfg.KeepOriginals
    /\ DOMAIN fs0 = {Join(Root, NameB \o dvplExtension)}
    /\ fs0[Join(Root, NameB \o dvplExtension)] = Packed
    /\ DOMAIN fs = {Join(Root, NameB)}
    /\ fs[Join(Root, NameB)] = <<65>>
    /\ ret.succ = 1 /\ ret.ign = 0

=============================================================================
